---- MODULE Spec2Model ----
(***************************************************************************)
(* Model of the SpiceBazaar storefront client (frontend/src/App.js):       *)
(*   - the cart store of CartProvider (addToCart, removeFromCart,          *)
(*     updateQuantity, clearCart);                                         *)
(*   - the payment status reconciler of CheckoutSuccess (entry effect,     *)
(*     pollPaymentStatus, its timers and in-flight status queries, and     *)
(*     what the page renders for each status).                             *)
(***************************************************************************)
EXTENDS Integers, Sequences, FiniteSets, TLC

\* ---------------------------------------------------------------- bounds
MaxProducts == 3
MaxQty == 2
MaxCartOps == 4
MaxChains == 2
MaxInstances == 1
MaxCheckouts == 2

Products == 1..MaxProducts
AddQuantities == 1..MaxQty
\* quantities handed to updateQuantity: the sidebar passes item.quantity - 1
\* and item.quantity + 1, so zero is reached; negatives are accepted too
SetQuantities == (0 - 1)..MaxQty

\* product.price as served by the catalogue, written in cents: 5.00, 3.50,
\* 2.99, 12.99, ...
PriceOf(p) == IF p = 1 THEN 500 ELSE IF p = 2 THEN 350 ELSE 299 + 1000 * (p - 3)

\* ------------------------------------------------- JavaScript numbers
\* Natural numbers of any size are sequences of limbs in base 2^15, least
\* significant first, without high zero limbs; << >> is 0.
Base == 2^15

RECURSIVE ToLimbs(_)
ToLimbs(n) == IF n = 0 THEN << >> ELSE <<n % Base>> \o ToLimbs(n \div Base)

RECURSIVE FromLimbs(_)
FromLimbs(b) == IF b = << >> THEN 0 ELSE b[1] + Base * FromLimbs(Tail(b))

RECURSIVE Trim(_)
Trim(b) ==
  IF b = << >> THEN << >>
  ELSE IF b[Len(b)] = 0 THEN Trim(SubSeq(b, 1, Len(b) - 1))
  ELSE b

Limb0(b) == IF b = << >> THEN 0 ELSE b[1]
Higher(b) == IF b = << >> THEN << >> ELSE Tail(b)

RECURSIVE AddCarry(_, _, _)
AddCarry(a, b, c) ==
  IF a = << >> /\ b = << >> THEN ToLimbs(c)
  ELSE LET s == Limb0(a) + Limb0(b) + c
       IN <<s % Base>> \o AddCarry(Higher(a), Higher(b), s \div Base)

BigAdd(a, b) == AddCarry(a, b, 0)

RECURSIVE TimesCarry(_, _, _)
TimesCarry(b, n, c) ==
  IF b = << >> THEN ToLimbs(c)
  ELSE LET t == b[1] * n + c
       IN <<t % Base>> \o TimesCarry(Tail(b), n, t \div Base)

\* b * n for 0 <= n < Base
BigTimes(b, n) == IF n = 0 THEN << >> ELSE TimesCarry(b, n, 0)

\* quotient (with high zero limbs) and remainder of b by d, 0 < d <= Base
RECURSIVE DivRemLimbs(_, _)
DivRemLimbs(b, d) ==
  IF b = << >> THEN [q |-> << >>, r |-> 0]
  ELSE LET hi == DivRemLimbs(Tail(b), d)
           t == hi.r * Base + b[1]
       IN [q |-> <<t \div d>> \o hi.q, r |-> t % d]

BigDivRem(b, d) ==
  LET dr == DivRemLimbs(b, d) IN [q |-> Trim(dr.q), r |-> dr.r]

\* b * 2^k
ShiftLeft(b, k) ==
  IF b = << >> \/ k = 0 THEN b
  ELSE LET n == k \div 15
           high == BigTimes(b, 2^(k % 15))
       IN IF n = 0 THEN high ELSE [i \in 1..n |-> 0] \o high

\* b \div 2^k, and whether anything nonzero was cut off
ShiftRight(b, k) ==
  LET n == k \div 15 IN
    IF n >= Len(b)
      THEN [q |-> << >>, sticky |-> b # << >>]
      ELSE LET dr == BigDivRem(SubSeq(b, n + 1, Len(b)), 2^(k % 15))
           IN [q |-> dr.q,
               sticky |-> dr.r # 0 \/ \E i \in 1..n : b[i] # 0]

BitLength(b) ==
  IF b = << >> THEN 0
  ELSE 15 * (Len(b) - 1)
         + (CHOOSE k \in 1..15 : 2^(k - 1) <= b[Len(b)] /\ b[Len(b)] < 2^k)

IsOdd(b) == Limb0(b) % 2 = 1

\* An IEEE 754 double that is not negative: m * 2^e with m of exactly
\* 53 bits, or zero.
Zero == [m |-> << >>, e |-> 0]

\* b * 2^e (plus less than one unit of b when sticky) rounded to the nearest
\* double, ties to even
RoundToDouble(b, e, sticky) ==
  LET L == BitLength(b) IN
    IF L = 0 THEN Zero
    ELSE IF L <= 53
      THEN [m |-> ShiftLeft(b, 53 - L), e |-> e - (53 - L)]
    ELSE LET d == L - 53
             cut == ShiftRight(b, d - 1)
             kept == BigDivRem(cut.q, 2).q
             up == IsOdd(cut.q) /\ (sticky \/ cut.sticky \/ IsOdd(kept))
             r == IF up THEN BigAdd(kept, <<1>>) ELSE kept
         IN IF BitLength(r) > 53
              THEN [m |-> BigDivRem(r, 2).q, e |-> e + d + 1]
              ELSE [m |-> r, e |-> e + d]

\* the Number a decimal price written as cents / 100 parses to
Number(cents) ==
  IF cents = 0 THEN Zero
  ELSE LET dr == BigDivRem(ShiftLeft(ToLimbs(cents), 64), 100)
       IN RoundToDouble(dr.q, 0 - 64, dr.r # 0)

\* x * n for a double x and an integer 0 <= n < Base
NumTimes(x, n) == RoundToDouble(BigTimes(x.m, n), x.e, FALSE)

\* x + y for doubles
NumPlus(x, y) ==
  IF x = Zero THEN y
  ELSE IF y = Zero THEN x
  ELSE LET emin == IF x.e < y.e THEN x.e ELSE y.e
       IN RoundToDouble(BigAdd(ShiftLeft(x.m, x.e - emin),
                               ShiftLeft(y.m, y.e - emin)),
                        emin, FALSE)

\* x.toFixed(2), as the number of cents it prints: the integer n with
\* n / 100 nearest to x, the larger one of two
toFixed2(x) ==
  IF x = Zero THEN 0
  ELSE LET v == BigTimes(x.m, 100)
       IN IF x.e >= 0 THEN FromLimbs(ShiftLeft(v, x.e))
          ELSE LET k == 0 - x.e
               IN FromLimbs(ShiftRight(BigAdd(v, ShiftLeft(<<1>>, k - 1)), k).q)

\* Cart store (CartProvider):
\*   cartItems  the cartItems state: a sequence of line items
\*   prevCart   the cart the last mutation was applied to
\*   lastOp     the last mutation called, with its arguments
\*   cart0      the cart before the current run of consecutive addToCart calls
\*   adds       the (id, quantity) arguments of that run
\*   nops       number of mutations called so far
\*   renderedCart  the cartItems of the last render of CartProvider: the
\*                 value its getTotalItems and getTotalPrice closures and the
\*                 components reading the context see
\*   pending    a setCartItems update is queued and its re-render not yet run
\* Reconciler (CheckoutSuccess):
\*   mounted        the route /checkout/success is rendered
\*   inst           number of CheckoutSuccess instances created so far; the
\*                  mounted instance is the last one
\*   location       the session_id parameter of useLocation().search
\*   paymentStatus  the paymentStatus state of the last instance
\*   sessionId      the sessionId state of the last instance
\*   enteredWithSid the entry effect of the last instance has seen a session_id
\*   chains         the call chains of pollPaymentStatus started so far
\*   nchains        how many there are
\*   last           the last event handled: mount, location, unmount,
\*                  response (with the response) or timer, and its chain
\* Checkout (CartSidebar):
\*   customerEmail  the customerEmail state
\*   isCheckingOut  the isCheckingOut state
\*   checkouts      the calls of handleCheckout so far, each with what it did
\*   ncalls         how many there are
\*   href           window.location.href as assigned by the code ("" if not yet)
\*   alerts         number of alert() dialogs shown by a checkout
VARIABLES cartItems, prevCart, lastOp, cart0, adds, nops,
          renderedCart, pending,
          mounted, inst, location, paymentStatus, sessionId, enteredWithSid,
          chains, nchains, last,
          customerEmail, isCheckingOut, checkouts, ncalls, href, alerts

cartVars == <<cartItems, prevCart, lastOp, cart0, adds, nops,
              renderedCart, pending>>
pollVars == <<mounted, inst, location, paymentStatus, sessionId,
              enteredWithSid, chains, nchains, last>>
checkoutVars == <<customerEmail, isCheckingOut, checkouts, ncalls, href, alerts>>
vars == <<cartVars, pollVars, checkoutVars>>

\* ------------------------------------------------------------ cart store
NoOp == [op |-> "none", id |-> 0, q |-> 0]

\* prev.find(item => item.product_id === id) is truthy
HasItem(cart, id) == \E i \in 1..Len(cart) : cart[i].product_id = id

NewItem(id, quantity) ==
  [product_id |-> id, quantity |-> quantity, price |-> PriceOf(id)]

AddToCartAlwaysAppend(cart, id, quantity) ==
  Append(cart, NewItem(id, quantity))

addToCart(cart, id, quantity) ==
  IF HasItem(cart, id)
    THEN [i \in 1..Len(cart) |->
            IF cart[i].product_id = id
              THEN [cart[i] EXCEPT !.quantity = cart[i].quantity + quantity]
              ELSE cart[i]]
    ELSE Append(cart, NewItem(id, quantity))

RemoveKeepsOnlyMatch(cart, id) ==
  SelectSeq(cart, LAMBDA item : item.product_id = id)

removeFromCart(cart, id) ==
  SelectSeq(cart, LAMBDA item : item.product_id # id)

UpdateQuantityStrictlyNegative(cart, id, quantity) ==
  IF quantity < 0
    THEN removeFromCart(cart, id)
    ELSE [i \in 1..Len(cart) |->
            IF cart[i].product_id = id
              THEN [cart[i] EXCEPT !.quantity = quantity]
              ELSE cart[i]]

updateQuantity(cart, id, quantity) ==
  IF quantity <= 0
    THEN removeFromCart(cart, id)
    ELSE [i \in 1..Len(cart) |->
            IF cart[i].product_id = id
              THEN [cart[i] EXCEPT !.quantity = quantity]
              ELSE cart[i]]

clearCart(cart) == << >>

RECURSIVE ReduceItems(_, _)
ReduceItems(cart, total) ==
  IF cart = << >> THEN total
  ELSE ReduceItems(Tail(cart), total + Head(cart).quantity)

\* cartItems.reduce((total, item) => total + item.quantity, 0)
getTotalItems(cart) == ReduceItems(cart, 0)

RECURSIVE ReducePrice(_, _)
ReducePrice(cart, total) ==
  IF cart = << >> THEN total
  ELSE ReducePrice(Tail(cart),
         NumPlus(total, NumTimes(Number(Head(cart).price), Head(cart).quantity)))

RECURSIVE ReducePriceOnly(_, _)
ReducePriceOnly(cart, total) ==
  IF cart = << >> THEN total
  ELSE ReducePriceOnly(Tail(cart), NumPlus(total, Number(Head(cart).price)))

GetTotalPriceIgnoresQuantity(cart) == ReducePriceOnly(cart, Zero)

\* cartItems.reduce((total, item) => total + (item.price * item.quantity), 0)
getTotalPrice(cart) == ReducePrice(cart, Zero)

InitCart ==
  /\ cartItems = << >>
  /\ prevCart = << >>
  /\ lastOp = NoOp
  /\ cart0 = << >>
  /\ adds = << >>
  /\ nops = 0
  /\ renderedCart = << >>
  /\ pending = FALSE

\* A mutation is called from an event handler, after the render for the
\* previous event has run; setCartItems queues the update and the re-render.
Queued ==
  /\ ~pending
  /\ pending' = TRUE
  /\ UNCHANGED renderedCart

\* cart0 is the cart before the current run of consecutive addToCart calls
\* and adds the calls of that run; any other mutation starts a new run.
AddToCart(id, quantity) ==
  /\ nops < MaxCartOps
  /\ Queued
  /\ cartItems' = addToCart(cartItems, id, quantity)
  /\ prevCart' = cartItems
  /\ lastOp' = [op |-> "add", id |-> id, q |-> quantity]
  /\ adds' = Append(adds, [id |-> id, q |-> quantity])
  /\ nops' = nops + 1
  /\ UNCHANGED cart0
  /\ UNCHANGED <<pollVars, checkoutVars>>

RemoveFromCart(id) ==
  /\ nops < MaxCartOps
  /\ Queued
  /\ cartItems' = removeFromCart(cartItems, id)
  /\ prevCart' = cartItems
  /\ lastOp' = [op |-> "remove", id |-> id, q |-> 0]
  /\ cart0' = cartItems'
  /\ adds' = << >>
  /\ nops' = nops + 1
  /\ UNCHANGED <<pollVars, checkoutVars>>

UpdateQuantity(id, quantity) ==
  /\ nops < MaxCartOps
  /\ Queued
  /\ cartItems' = updateQuantity(cartItems, id, quantity)
  /\ prevCart' = cartItems
  /\ lastOp' = [op |-> "update", id |-> id, q |-> quantity]
  /\ cart0' = cartItems'
  /\ adds' = << >>
  /\ nops' = nops + 1
  /\ UNCHANGED <<pollVars, checkoutVars>>

ClearCart ==
  /\ nops < MaxCartOps
  /\ Queued
  /\ cartItems' = clearCart(cartItems)
  /\ prevCart' = cartItems
  /\ lastOp' = [op |-> "clear", id |-> 0, q |-> 0]
  /\ cart0' = cartItems'
  /\ adds' = << >>
  /\ nops' = nops + 1
  /\ UNCHANGED <<pollVars, checkoutVars>>

RerenderKeepsContextValue ==
  /\ pending
  /\ pending' = FALSE
  /\ UNCHANGED <<cartItems, prevCart, lastOp, cart0, adds, nops, renderedCart>>
  /\ UNCHANGED <<pollVars, checkoutVars>>

\* React re-renders CartProvider with the updated state: the context value
\* and the closures in it now see the new cartItems
Rerender ==
  /\ pending
  /\ pending' = FALSE
  /\ renderedCart' = cartItems
  /\ UNCHANGED <<cartItems, prevCart, lastOp, cart0, adds, nops>>
  /\ UNCHANGED <<pollVars, checkoutVars>>

NextCart ==
  \/ \E id \in Products, q \in AddQuantities : AddToCart(id, q)
  \/ \E id \in Products : RemoveFromCart(id)
  \/ \E id \in Products, q \in SetQuantities : UpdateQuantity(id, q)
  \/ ClearCart
  \/ Rerender


\* ------------------------------------------------------------- checkout
Emails == {"", "buyer@example.com"}

\* how POST /checkout/session can settle: the request fails (network), the
\* service answers with an error status (axios rejects), or it answers 200
\* with data.url set (url), with a body without url (nourl), or with a null
\* body (nodata)
PostResults == {"network", "service", "url", "nourl", "nodata"}

SessionUrl == "https://checkout.example/pay/cs_1"

NoCheckout ==
  [st |-> "none", posts |-> 0, result |-> "none",
   redirected |-> FALSE, alerted |-> FALSE]

CheckoutIds == 1..MaxCheckouts

PassesWhenEitherPresent(email, cart) == ~(email = "" /\ Len(cart) = 0)

\* the negation of (!customerEmail || cartItems.length === 0)
PassesValidation(email, cart) == ~(email = "" \/ Len(cart) = 0)

\* the try / catch of handleCheckout once axios.post has settled
OnPostSettled(ck, result) ==
  IF result \in {"network", "service"}
    THEN [ck EXCEPT !.st = "done", !.result = result, !.alerted = TRUE]
  ELSE IF result = "nodata"
    THEN [ck EXCEPT !.st = "done", !.result = result, !.alerted = TRUE]
  ELSE IF result = "url"
    THEN [ck EXCEPT !.st = "done", !.result = result, !.redirected = TRUE]
  ELSE [ck EXCEPT !.st = "done", !.result = result]

InitCheckout ==
  /\ customerEmail = ""
  /\ isCheckingOut = FALSE
  /\ checkouts = [k \in CheckoutIds |-> NoCheckout]
  /\ ncalls = 0
  /\ href = ""
  /\ alerts = 0

\* onChange of the email input
SetCustomerEmail(email) ==
  /\ ~pending
  /\ email # customerEmail
  /\ customerEmail' = email
  /\ UNCHANGED <<isCheckingOut, checkouts, ncalls, href, alerts>>
  /\ UNCHANGED <<cartVars, pollVars>>

\* handleCheckout is called (whatever the disabled attribute of its button
\* says) and runs up to its return or its await
HandleCheckout ==
  /\ ~pending
  /\ ncalls < MaxCheckouts
  /\ ncalls' = ncalls + 1
  /\ IF PassesValidation(customerEmail, renderedCart)
       THEN /\ isCheckingOut' = TRUE
            /\ checkouts' = [checkouts EXCEPT ![ncalls + 1] =
                 [NoCheckout EXCEPT !.st = "inflight", !.posts = 1]]
       ELSE /\ checkouts' = [checkouts EXCEPT ![ncalls + 1] =
                 [NoCheckout EXCEPT !.st = "rejected"]]
            /\ UNCHANGED isCheckingOut
  /\ UNCHANGED <<customerEmail, href, alerts>>
  /\ UNCHANGED <<cartVars, pollVars>>

\* axios.post of call k settles: the rest of try, catch and finally
PostSettled(k, result) ==
  /\ checkouts[k].st = "inflight"
  /\ LET ck == OnPostSettled(checkouts[k], result) IN
       /\ checkouts' = [checkouts EXCEPT ![k] = ck]
       /\ href' = IF ck.redirected THEN SessionUrl ELSE href
       /\ alerts' = IF ck.alerted THEN alerts + 1 ELSE alerts
  /\ isCheckingOut' = FALSE
  /\ UNCHANGED <<customerEmail, ncalls>>
  /\ UNCHANGED <<cartVars, pollVars>>

NextCheckout ==
  \/ \E id \in Products : AddToCart(id, 1)
  \/ ClearCart
  \/ Rerender
  \/ \E email \in Emails : SetCustomerEmail(email)
  \/ HandleCheckout
  \/ \E k \in CheckoutIds, result \in PostResults : PostSettled(k, result)

\* ------------------------------------------- payment status reconciler
maxAttempts == 5
pollInterval == 2000

\* urlParams.get('session_id'): null when the parameter is absent, else the
\* session id. The code only tests the value for truthiness and passes it on
\* to the status URL and to setSessionId, so one id stands for all of them.
NullParam == 0
SessionIds == {1}
SearchParams == {NullParam} \cup SessionIds

Terminal == {"success", "expired", "error", "timeout"}

\* what GET /checkout/status/{session_id} can give: a rejected request, or
\* response.data = {status, payment_status}
Failure == [ok |-> FALSE, status |-> "", payment_status |-> ""]
Responses ==
  {Failure} \cup
  [ok : {TRUE},
   status : {"open", "complete", "expired"},
   payment_status : {"paid", "unpaid", "no_payment_required"}]

\* One call chain of pollPaymentStatus: the call made by the entry effect
\* and the calls its timers make.
\*   st        none | inflight (awaiting axios.get) | timer (setTimeout
\*             pending) | done (returned without scheduling anything)
\*   attempts  the attempts argument of the current call
\*   owner     the CheckoutSuccess instance whose setPaymentStatus it holds
\*   queries   axios.get calls issued, timers: setTimeout calls made,
\*   opens     responses that were neither paid nor expired
\*   delay     the delay of the pending or last timer
\*   outcome   the value it passed to setPaymentStatus, if any
NoChain ==
  [st |-> "none", sid |-> NullParam, attempts |-> 0, owner |-> 0,
   queries |-> 0, timers |-> 0, opens |-> 0, delay |-> 0, outcome |-> "none"]

ChainIds == 1..MaxChains

PollOffByOne(ch, attempts) ==
  IF attempts > maxAttempts
    THEN [ch EXCEPT !.st = "done", !.attempts = attempts, !.outcome = "timeout"]
    ELSE [ch EXCEPT !.st = "inflight", !.attempts = attempts,
                    !.queries = @ + 1]

\* pollPaymentStatus(sessionId, attempts) up to its await
pollPaymentStatus(ch, attempts) ==
  IF attempts >= maxAttempts
    THEN [ch EXCEPT !.st = "done", !.attempts = attempts, !.outcome = "timeout"]
    ELSE [ch EXCEPT !.st = "inflight", !.attempts = attempts,
                    !.queries = @ + 1]

Reschedule(ch) ==
  [ch EXCEPT !.st = "timer", !.timers = @ + 1, !.opens = @ + 1,
             !.delay = pollInterval]

Finish(ch, status) == [ch EXCEPT !.st = "done", !.outcome = status]

OnResponseRetriesFailure(ch, resp) ==
  IF ~resp.ok THEN [Reschedule(ch) EXCEPT !.opens = ch.opens]
  ELSE IF resp.payment_status = "paid" THEN Finish(ch, "success")
  ELSE IF resp.status = "expired" THEN Finish(ch, "expired")
  ELSE Reschedule(ch)

OnResponsePaidNeedsComplete(ch, resp) ==
  IF ~resp.ok THEN Finish(ch, "error")
  ELSE IF resp.payment_status = "paid" /\ resp.status = "complete"
    THEN Finish(ch, "success")
  ELSE IF resp.status = "expired" THEN Finish(ch, "expired")
  ELSE Reschedule(ch)

OnResponseExpiredKeepsPolling(ch, resp) ==
  IF ~resp.ok THEN Finish(ch, "error")
  ELSE IF resp.payment_status = "paid" THEN Finish(ch, "success")
  ELSE IF resp.status = "expired" /\ ch.attempts > 0 THEN Finish(ch, "expired")
  ELSE Reschedule(ch)

OnResponseKeepsWaiting(ch, resp) ==
  IF ~resp.ok THEN Finish(ch, "error")
  ELSE IF resp.payment_status = "paid" THEN Finish(ch, "success")
  ELSE IF resp.status = "expired" THEN Finish(ch, "expired")
  ELSE ch

\* pollPaymentStatus from its await on: the try body after axios.get, or
\* the catch block
OnResponse(ch, resp) ==
  IF ~resp.ok THEN Finish(ch, "error")
  ELSE IF resp.payment_status = "paid" THEN Finish(ch, "success")
  ELSE IF resp.status = "expired" THEN Finish(ch, "expired")
  ELSE Reschedule(ch)

\* setPaymentStatus called from chain ch: it updates the state of the
\* instance that created the chain, which is the page's state only while
\* that instance is the mounted one
setPaymentStatus(ch, before) ==
  IF ch.outcome # before.outcome /\ mounted /\ ch.owner = inst
    THEN ch.outcome
    ELSE paymentStatus

\* the JSX of CheckoutSuccess: heading, paragraph and button per status
NoView == [heading |-> "", message |-> "", action |-> ""]
Render(status) ==
  IF status = "checking"
    THEN [heading |-> "Processing Payment...",
          message |-> "Please wait while we confirm your payment.",
          action |-> ""]
  ELSE IF status = "success"
    THEN [heading |-> "Payment Successful!",
          message |-> "Thank you for your purchase. Your spices are on their way!",
          action |-> "Continue Shopping"]
  ELSE IF status = "error"
    THEN [heading |-> "Payment Error",
          message |-> "There was an error processing your payment. Please try again.",
          action |-> "Back to Shop"]
  ELSE NoView

NoEvent == [kind |-> "none", chain |-> 0, resp |-> Failure]

InitPoll ==
  /\ mounted = FALSE
  /\ inst = 0
  /\ location = NullParam
  /\ paymentStatus = "checking"
  /\ sessionId = NullParam
  /\ enteredWithSid = FALSE
  /\ chains = [c \in ChainIds |-> NoChain]
  /\ nchains = 0
  /\ last = NoEvent

\* the entry effect: useEffect(..., [location]) run for instance owner,
\* whose sessionId state is sid0 before it
EntryEffect(param, owner, kind, sid0) ==
  IF param # NullParam
    THEN /\ nchains < MaxChains
         /\ sessionId' = param
         /\ nchains' = nchains + 1
         /\ chains' = [chains EXCEPT ![nchains + 1] =
              pollPaymentStatus([NoChain EXCEPT !.sid = param, !.owner = owner], 0)]
         /\ last' = [kind |-> kind, chain |-> nchains + 1, resp |-> Failure]
    ELSE /\ sessionId' = sid0
         /\ last' = [kind |-> kind, chain |-> 0, resp |-> Failure]
         /\ UNCHANGED <<chains, nchains>>

\* the route /checkout/success is rendered: a new CheckoutSuccess instance
\* with its initial state, then its entry effect
Mount(param) ==
  /\ ~mounted
  /\ inst < MaxInstances
  /\ mounted' = TRUE
  /\ inst' = inst + 1
  /\ location' = param
  /\ paymentStatus' = "checking"
  /\ enteredWithSid' = (param # NullParam)
  /\ EntryEffect(param, inst + 1, "mount", NullParam)
  /\ UNCHANGED <<cartVars, checkoutVars>>

\* useLocation() returns a new location while the route stays matched
\* (history navigation to the same path, a changed hash or query)
LocationChange(param) ==
  /\ mounted
  /\ location' = param
  /\ enteredWithSid' = (enteredWithSid \/ param # NullParam)
  /\ EntryEffect(param, inst, "location", sessionId)
  /\ UNCHANGED <<mounted, inst, paymentStatus>>
  /\ UNCHANGED <<cartVars, checkoutVars>>

\* navigation to another route: the instance is torn down; the effect has
\* no cleanup, so timers and requests stay pending
Unmount ==
  /\ mounted
  /\ mounted' = FALSE
  /\ last' = [kind |-> "unmount", chain |-> 0, resp |-> Failure]
  /\ UNCHANGED <<inst, location, paymentStatus, sessionId, enteredWithSid,
                 chains, nchains>>
  /\ UNCHANGED <<cartVars, checkoutVars>>

\* onClick of the button of the success and error views ("Continue Shopping",
\* "Back to Shop"): the handler assigns window.location.href
HomeUrl == "/"

ClickAction ==
  /\ mounted
  /\ Render(paymentStatus).action # ""
  /\ href' = HomeUrl
  /\ last' = [kind |-> "click", chain |-> 0, resp |-> Failure]
  /\ UNCHANGED <<customerEmail, isCheckingOut, checkouts, ncalls, alerts>>
  /\ UNCHANGED <<mounted, inst, location, paymentStatus, sessionId,
                 enteredWithSid, chains, nchains>>
  /\ UNCHANGED cartVars

\* axios.get of chain c settles with resp
QueryResponse(c, resp) ==
  /\ chains[c].st = "inflight"
  /\ LET ch == OnResponse(chains[c], resp) IN
       /\ chains' = [chains EXCEPT ![c] = ch]
       /\ paymentStatus' = setPaymentStatus(ch, chains[c])
  /\ last' = [kind |-> "response", chain |-> c, resp |-> resp]
  /\ UNCHANGED <<mounted, inst, location, sessionId, enteredWithSid, nchains>>
  /\ UNCHANGED <<cartVars, checkoutVars>>

\* the timer of chain c fires: pollPaymentStatus(sessionId, attempts + 1)
TimerFire(c) ==
  /\ chains[c].st = "timer"
  /\ LET ch == pollPaymentStatus(chains[c], chains[c].attempts + 1) IN
       /\ chains' = [chains EXCEPT ![c] = ch]
       /\ paymentStatus' = setPaymentStatus(ch, chains[c])
  /\ last' = [kind |-> "timer", chain |-> c, resp |-> Failure]
  /\ UNCHANGED <<mounted, inst, location, sessionId, enteredWithSid, nchains>>
  /\ UNCHANGED <<cartVars, checkoutVars>>

NextPoll ==
  \/ \E param \in SearchParams : Mount(param)
  \/ \E param \in SearchParams : LocationChange(param)
  \/ Unmount
  \/ ClickAction
  \/ \E c \in ChainIds, resp \in Responses : QueryResponse(c, resp)
  \/ \E c \in ChainIds : TimerFire(c)

Init == InitCart /\ InitPoll /\ InitCheckout

\* the reconciler alone, the cart store alone, and both
SpecPoll == Init /\ [][NextPoll]_vars

\* the reconciler of a page that stays open, where every status query is
\* eventually answered or fails and every timer eventually fires
NextReconcile ==
  \/ \E param \in SearchParams : Mount(param)
  \/ \E param \in SearchParams : LocationChange(param)
  \/ \E c \in ChainIds, resp \in Responses : QueryResponse(c, resp)
  \/ \E c \in ChainIds : TimerFire(c)

SpecReconcile ==
  /\ Init
  /\ [][NextReconcile]_vars
  /\ \A c \in ChainIds :
       /\ WF_vars(\E resp \in Responses : QueryResponse(c, resp))
       /\ WF_vars(TimerFire(c))

SpecCart == Init /\ [][NextCart]_vars

\* the cart sidebar: filling the cart, the email, and checking out
SpecCheckout == Init /\ [][NextCheckout]_vars

Next == NextCart \/ NextCheckout \/ NextPoll

Spec == Init /\ [][Next]_vars

\* --------------------------------------------------- checkout properties
\* C12: a call of handleCheckout with an empty cart or an empty customer
\* email issues no POST /checkout/session, performs no redirect and leaves
\* the cart and isCheckingOut as they were.
C12_ValidationRejects ==
  [][(ncalls' # ncalls /\ (customerEmail = "" \/ Len(renderedCart) = 0)) =>
       /\ checkouts'[ncalls'].posts = 0
       /\ checkouts'[ncalls'].st = "rejected"
       /\ \A k \in CheckoutIds \ {ncalls'} : checkouts'[k] = checkouts[k]
       /\ href' = href
       /\ cartItems' = cartItems
       /\ renderedCart' = renderedCart
       /\ isCheckingOut' = isCheckingOut]_vars

\* a call with items in the cart and no email was rejected
C12_Witness ==
  /\ ncalls = 1
  /\ checkouts[1].st = "rejected"
  /\ checkouts[1].posts = 0
  /\ customerEmail = ""
  /\ Len(renderedCart) >= 1
  /\ href = ""

\* C13: a call that passed validation has issued one request and, once the
\* request has settled, has either redirected or shown the error, not both
\* and not neither; a network error, an error answer of the service and an
\* answer without redirect URL show the error.
C13_RedirectOrError ==
  \A k \in CheckoutIds :
    /\ checkouts[k].st \in {"inflight", "done"} => checkouts[k].posts = 1
    /\ checkouts[k].st = "done" =>
         /\ checkouts[k].redirected # checkouts[k].alerted
         /\ checkouts[k].result \in {"network", "service", "nourl", "nodata"}
              => checkouts[k].alerted

\* --------------------------------------------------- reconciler properties
Owned(c) == mounted /\ chains[c].owner = inst

\* C1: once the status of a CheckoutSuccess instance is success, expired,
\* error or timeout, no step changes it.
C1_TerminalNeverChanges ==
  [][(inst' = inst /\ paymentStatus \in Terminal)
       => paymentStatus' = paymentStatus]_vars

\* C2: a call chain of pollPaymentStatus never issues more than maxAttempts
\* queries, every query after the first follows one timer of pollInterval, and
\* a chain whose maxAttempts queries all reported an open, unpaid session has
\* issued exactly maxAttempts queries and ends by setting the status timeout.
C2_OpenSessionTimesOut ==
  /\ \A c \in ChainIds :
       LET ch == chains[c] IN
         /\ ch.queries <= maxAttempts
         /\ ch.st = "inflight" => ch.timers = ch.queries - 1
         /\ ch.timers > 0 => ch.delay = pollInterval
         /\ ch.opens = maxAttempts =>
              /\ ch.queries = maxAttempts
              /\ ch.st \in {"timer", "done"}
              /\ ch.st = "done" => ch.outcome = "timeout"
         /\ ch.outcome = "timeout" =>
              ch.opens = maxAttempts /\ ch.queries = maxAttempts
  /\ (last.kind = "timer" /\ chains[last.chain].st = "done" /\ Owned(last.chain))
       => paymentStatus = "timeout"

\* a single chain ran through five open responses and set timeout
C2_Witness ==
  /\ nchains = 1
  /\ chains[1].outcome = "timeout"
  /\ chains[1].queries = 5
  /\ chains[1].opens = 5
  /\ last.kind = "timer"
  /\ paymentStatus = "timeout"

\* C3: a failed status query sets the status to error in that step, schedules
\* no timer, and the chain it belongs to does nothing afterwards.
C3_FailureNotRetried ==
  /\ [](/\ (last.kind = "response" /\ ~last.resp.ok) =>
             /\ chains[last.chain].st = "done"
             /\ chains[last.chain].outcome = "error"
             /\ Owned(last.chain) => paymentStatus = "error"
        /\ \A c \in ChainIds : chains[c].outcome = "error" =>
             /\ chains[c].st = "done"
             /\ chains[c].queries = chains[c].attempts + 1
             /\ chains[c].timers = chains[c].attempts)
  /\ [][\A c \in ChainIds :
          chains[c].outcome = "error" => chains'[c] = chains[c]]_vars

\* the third query of a chain failed
C3_Witness ==
  /\ last.kind = "response"
  /\ ~last.resp.ok
  /\ chains[last.chain].attempts = 2
  /\ chains[last.chain].queries = 3
  /\ paymentStatus = "error"

\* C4: a successful query reporting payment_status paid sets the status to
\* success and ends the chain; when it was the first query of the chain,
\* one query was issued and no timer was scheduled.
C4_PaidIsSuccess ==
  (last.kind = "response" /\ last.resp.ok /\ last.resp.payment_status = "paid")
    => /\ chains[last.chain].st = "done"
       /\ chains[last.chain].outcome = "success"
       /\ Owned(last.chain) => paymentStatus = "success"
       /\ chains[last.chain].attempts = 0 =>
            chains[last.chain].queries = 1 /\ chains[last.chain].timers = 0

\* the first query of the only chain reported paid
C4_Witness ==
  /\ nchains = 1
  /\ last.kind = "response"
  /\ last.resp.ok
  /\ last.resp.payment_status = "paid"
  /\ chains[1].queries = 1
  /\ chains[1].timers = 0
  /\ paymentStatus = "success"

\* C5 as stated: a successful query reporting status expired sets the status
\* to expired and schedules no further query.
C5_ExpiredIsExpired ==
  (last.kind = "response" /\ last.resp.ok /\ last.resp.status = "expired")
    => /\ chains[last.chain].st = "done"
       /\ chains[last.chain].outcome = "expired"
       /\ Owned(last.chain) => paymentStatus = "expired"

\* C5 amended: a successful query reporting status expired and a
\* payment_status other than paid sets the status to expired and schedules
\* no further query; with payment_status paid the status becomes success.
C5_ExpiredUnlessPaid ==
  (last.kind = "response" /\ last.resp.ok /\ last.resp.status = "expired")
    => /\ chains[last.chain].st = "done"
       /\ chains[last.chain].timers = chains[last.chain].attempts
       /\ chains[last.chain].outcome =
            (IF last.resp.payment_status = "paid" THEN "success" ELSE "expired")
       /\ Owned(last.chain) => paymentStatus = chains[last.chain].outcome

\* the first query reported an expired, unpaid session
C5_Witness ==
  /\ last.kind = "response"
  /\ last.resp.ok
  /\ last.resp.status = "expired"
  /\ last.resp.payment_status = "unpaid"
  /\ chains[last.chain].attempts = 0
  /\ paymentStatus = "expired"

\* C6: an instance entered without session_id issues no query, schedules no
\* timer and is in a condition other than the polling state checking.
C6_NoSessionIsIdle ==
  (mounted /\ ~enteredWithSid) =>
    /\ \A c \in ChainIds : chains[c].owner # inst
    /\ paymentStatus # "checking"
    /\ Render(paymentStatus) # Render("checking")

\* C7: for the statuses error, timeout and expired the page renders a
\* message and a recovery action, and the copy for timeout is not the copy
\* for error.
C7_FailuresRendered ==
  (mounted /\ paymentStatus \in {"error", "timeout", "expired"}) =>
    /\ Render(paymentStatus).message # ""
    /\ Render(paymentStatus).action # ""
    /\ Render("timeout") # Render("error")

\* number of status queries issued so far for session id sid
QueriesFor(sid) ==
  LET count[k \in 0..MaxChains] ==
        IF k = 0 THEN 0
        ELSE count[k - 1] + (IF chains[k].sid = sid THEN chains[k].queries ELSE 0)
  IN count[MaxChains]

Active(c) == chains[c].st \in {"inflight", "timer"}

\* C14: once the status of an instance is success, expired, error or
\* timeout, no step issues a status query for its session id.
C14_NoQueryAfterTerminal ==
  [][(inst' = inst /\ paymentStatus \in Terminal)
       => QueriesFor(sessionId)' = QueriesFor(sessionId)]_vars

\* C15: a chain whose CheckoutSuccess instance has been torn down issues no
\* status query, and no step writes the status of a torn down instance.
C15_AbandonedAfterTeardown ==
  [][/\ \A c \in ChainIds : (chains[c].st # "none" /\ ~Owned(c))
          => chains'[c].queries = chains[c].queries
     /\ (~mounted /\ ~mounted') => paymentStatus' = paymentStatus]_vars

\* C16: at most one chain per session id has a query in flight or a timer
\* pending.
C16_OneChainPerSession ==
  \A sid \in SessionIds :
    Cardinality({c \in ChainIds : Active(c) /\ chains[c].sid = sid}) <= 1

\* C18: if every query is answered or fails and every timer fires, an
\* instance entered with a session_id reaches success, expired, error or
\* timeout.
C18_EventuallyTerminal ==
  (mounted /\ enteredWithSid) ~> (paymentStatus \in Terminal)

\* a chain that was told to wait at least once has ended and set the status
C18_Witness ==
  /\ mounted
  /\ enteredWithSid
  /\ paymentStatus \in Terminal
  /\ \E c \in ChainIds :
       chains[c].st = "done" /\ chains[c].opens >= 1 /\ Owned(c)

\* ------------------------------------------------- cart store properties
IndicesOf(cart, id) == {i \in 1..Len(cart) : cart[i].product_id = id}

IndexOf(cart, id) == CHOOSE i \in IndicesOf(cart, id) : TRUE

QtyIn(cart, id) ==
  IF HasItem(cart, id) THEN cart[IndexOf(cart, id)].quantity ELSE 0

RECURSIVE SumAdded(_, _)
SumAdded(log, id) ==
  IF log = << >> THEN 0
  ELSE (IF Head(log).id = id THEN Head(log).q ELSE 0) + SumAdded(Tail(log), id)

AddedIds(log) == {log[i].id : i \in 1..Len(log)}

FirstAdd(log, id) == CHOOSE i \in 1..Len(log) :
  /\ log[i].id = id
  /\ \A j \in 1..(i - 1) : log[j].id # id

\* position at which id was first inserted: its place in the cart the run of
\* adds started from, or behind it in the order of the first adds of new ids
FirstInsertPos(start, log, id) ==
  IF HasItem(start, id) THEN IndexOf(start, id)
  ELSE Len(start) + Cardinality({p \in AddedIds(log) :
         ~HasItem(start, p) /\ FirstAdd(log, p) <= FirstAdd(log, id)})

WithoutIndex(cart, i) == SubSeq(cart, 1, i - 1) \o SubSeq(cart, i + 1, Len(cart))

\* C8: after any run of addToCart calls with positive quantities on any cart,
\* every product id added has exactly one line item, whose quantity is the
\* quantity it had before the run plus the sum of the quantities added, at
\* the position of its first insertion.
C8_MergeInvariant ==
  \A id \in AddedIds(adds) :
    /\ Cardinality(IndicesOf(cartItems, id)) = 1
    /\ QtyIn(cartItems, id) = QtyIn(cart0, id) + SumAdded(adds, id)
    /\ IndexOf(cartItems, id) = FirstInsertPos(cart0, adds, id)

\* the same id added twice with another id added in between
C8_Witness ==
  /\ Len(adds) >= 3
  /\ adds[1].id = adds[3].id
  /\ adds[2].id # adds[1].id
  /\ Len(cartItems) = 2
  /\ cartItems[1].quantity = adds[1].q + adds[3].q

\* C9: every reachable cart has at most one line item per product_id and
\* every line item has quantity >= 1.
C9_UniquePositive ==
  /\ \A i, j \in 1..Len(cartItems) :
       cartItems[i].product_id = cartItems[j].product_id => i = j
  /\ \A i \in 1..Len(cartItems) : cartItems[i].quantity >= 1

\* updateQuantity(id, q <= 0) on a cart holding id next to another item
C9_Witness ==
  /\ lastOp.op = "update"
  /\ lastOp.q <= 0
  /\ HasItem(prevCart, lastOp.id)
  /\ Len(prevCart) >= 2
  /\ Len(cartItems) = Len(prevCart) - 1

\* C10: updateQuantity(id, q) with q <= 0 yields the cart removeFromCart(id)
\* yields, which is the previous cart with the item of id cut out and all
\* other items in order; with q > 0 the quantity of the item is replaced in
\* place; an absent id leaves the cart as it was.
C10_UpdateQuantity ==
  lastOp.op = "update" =>
    IF ~HasItem(prevCart, lastOp.id) THEN cartItems = prevCart
    ELSE IF lastOp.q <= 0
      THEN /\ cartItems = removeFromCart(prevCart, lastOp.id)
           /\ cartItems = WithoutIndex(prevCart, IndexOf(prevCart, lastOp.id))
      ELSE /\ Len(cartItems) = Len(prevCart)
           /\ \A i \in 1..Len(prevCart) :
                IF prevCart[i].product_id = lastOp.id
                  THEN cartItems[i] = [prevCart[i] EXCEPT !.quantity = lastOp.q]
                  ELSE cartItems[i] = prevCart[i]

\* updateQuantity(id, 0) removed the middle item of a three-item cart
C10_Witness ==
  /\ lastOp.op = "update"
  /\ lastOp.q = 0
  /\ Len(prevCart) = 3
  /\ prevCart[2].product_id = lastOp.id
  /\ cartItems = <<prevCart[1], prevCart[3]>>
\* the exact total in cents: sum of price in cents times quantity
RECURSIVE SumCents(_)
SumCents(cart) ==
  IF cart = << >> THEN 0
  ELSE Head(cart).price * Head(cart).quantity + SumCents(Tail(cart))

\* sum of the quantities, product by product
RECURSIVE SumQtyOver(_, _)
SumQtyOver(cart, ids) ==
  IF ids = {} THEN 0
  ELSE LET id == CHOOSE p \in ids : TRUE
       IN QtyIn(cart, id) + SumQtyOver(cart, ids \ {id})

SumQty(cart) == SumQtyOver(cart, {cart[i].product_id : i \in 1..Len(cart)})

ExampleCart == <<NewItem(1, 2), NewItem(2, 1)>>

\* C11: in every render, for every cart reached by additions, removals and
\* quantity updates, getTotalPrice() is the sum of price times quantity to
\* the cent: the double it returns prints, with toFixed(2), as exactly that
\* sum. For the cart [{A, 2, 5.00}, {B, 1, 3.50}] getTotalItems() is 3 and
\* getTotalPrice() is the number 13.50.
C11_TotalPriceExactToCent ==
  ~pending =>
    /\ toFixed2(getTotalPrice(renderedCart)) = SumCents(renderedCart)
    /\ renderedCart = ExampleCart =>
         /\ getTotalItems(renderedCart) = 3
         /\ getTotalPrice(renderedCart) = Number(1350)

\* the example cart with one 2.99 item added: the double returned is not the
\* double nearest to 16.49, and still prints as 16.49
C11_Witness ==
  /\ ~pending
  /\ renderedCart = Append(ExampleCart, NewItem(3, 1))
  /\ getTotalPrice(renderedCart) # Number(1649)
  /\ toFixed2(getTotalPrice(renderedCart)) = 1649

\* C17 as stated: at every moment getTotalItems() returns the sum of the
\* quantities of the cart with every mutation called so far.
C17_ImmediatelyObservable ==
  getTotalItems(renderedCart) = SumQty(cartItems)

\* C17 amended: once the re-render queued by a mutation has run,
\* getTotalItems() returns the sum of the quantities of the cart with that
\* mutation; between the return of the mutation and that re-render it
\* returns the sum for the cart before the mutation.
C17_ObservableAfterRender ==
  /\ ~pending => getTotalItems(renderedCart) = SumQty(cartItems)
  /\ pending => getTotalItems(renderedCart) = SumQty(prevCart)

\* the re-render after an addToCart on a cart of two items has run
C17_Witness ==
  /\ ~pending
  /\ lastOp.op = "add"
  /\ Len(prevCart) = 2
  /\ renderedCart = cartItems
  /\ getTotalItems(renderedCart) = getTotalItems(prevCart) + lastOp.q
====
